---- MODULE Spec2Model ----
(***************************************************************************)
(* Model of the auth state store of client/src/contexts/AuthContext.jsx:   *)
(* the reducer authReducer, and the orchestrator functions of AuthProvider *)
(* (loadUser, login, register, logout, updateProfile, forgotPassword,      *)
(* resetPassword, clearError), each split at its await.                    *)
(***************************************************************************)
EXTENDS Integers, Sequences, FiniteSets, TLC

(***************************************************************************)
(* Bounds.                                                                 *)
(***************************************************************************)
\* number of user-initiated calls made during one run (they may overlap)
MaxCalls == 2

(***************************************************************************)
(* JavaScript values.  null, undefined, strings, plain objects and Error   *)
(* objects are kept apart, so that "absent" is never confused with an      *)
(* empty object or an empty message.                                       *)
(***************************************************************************)
Null == [kind |-> "null"]

Undefined == [kind |-> "undefined"]

Str(s) == [kind |-> "string", value |-> s]

Obj(f) == [kind |-> "object", fields |-> f]

Err(m) == [kind |-> "error", message |-> Str(m)]

EmptyFields == [f \in {} |-> ""]

\* !v of JavaScript, negated: null, undefined and "" are falsy
Truthy(v) == /\ v.kind \notin {"null", "undefined"}
             /\ ~(v.kind = "string" /\ v.value = "")

\* the characters of the strings the model uses (a string spreads into its
\* characters, keyed by their index)
StrChars(s) ==
  CASE s = "No token found" ->
         <<"N","o"," ","t","o","k","e","n"," ","f","o","u","n","d">>
    [] s = "Network Error" ->
         <<"N","e","t","w","o","r","k"," ","E","r","r","o","r">>
    [] s = "Bad login" ->
         <<"B","a","d"," ","l","o","g","i","n">>
    [] OTHER -> <<>>

IndexKey(i) ==
  <<"0","1","2","3","4","5","6","7","8","9","10","11","12","13">>[i + 1]

\* the own enumerable properties that { ...v } copies
Spread(v) ==
  CASE v.kind = "object" -> v.fields
    [] v.kind = "string" ->
         LET cs == StrChars(v.value)
             keys == {IndexKey(i) : i \in 0..(Len(cs) - 1)}
         IN [k \in keys |->
               cs[(CHOOSE i \in 0..(Len(cs) - 1) : IndexKey(i) = k) + 1]]
    [] OTHER -> EmptyFields

\* mutant: { ...b, ...a }, the spreads in the wrong order
Merge_FirstWins(a, b) ==
  Obj([f \in (DOMAIN Spread(a)) \cup (DOMAIN Spread(b)) |->
         IF f \in DOMAIN Spread(a) THEN Spread(a)[f] ELSE Spread(b)[f]])

\* { ...a, ...b }: the properties of b override those of a
Merge(a, b) ==
  Obj([f \in (DOMAIN Spread(a)) \cup (DOMAIN Spread(b)) |->
         IF f \in DOMAIN Spread(b) THEN Spread(b)[f] ELSE Spread(a)[f]])

(***************************************************************************)
(* The state and the action types.                                         *)
(***************************************************************************)
initialState ==
  [user |-> Null, isAuthenticated |-> FALSE, isLoading |-> TRUE, error |-> Null]

StartTypes == {"LOGIN_START", "REGISTER_START", "LOAD_USER_START"}

SuccessTypes == {"LOGIN_SUCCESS", "REGISTER_SUCCESS", "LOAD_USER_SUCCESS"}

FailureTypes == {"LOGIN_FAILURE", "REGISTER_FAILURE", "LOAD_USER_FAILURE"}

AUTH_ACTIONS ==
  StartTypes \cup SuccessTypes \cup FailureTypes
    \cup {"LOGOUT", "UPDATE_PROFILE_SUCCESS", "CLEAR_ERROR"}

Action(t, p) == [type |-> t, payload |-> p]

(***************************************************************************)
(* authReducer, one operator per case of its switch.                       *)
(***************************************************************************)
\* mutant: the start case leaves the error of the former state
StartCase_KeepsError(s, a) == [s EXCEPT !.isLoading = TRUE]

\* mutant: the start case drops the user
StartCase_DropsUser(s, a) ==
  [s EXCEPT !.user = Null, !.isLoading = TRUE, !.error = Null]

StartCase(s, a) == [s EXCEPT !.isLoading = TRUE, !.error = Null]

\* mutant: the success case forgets to clear the error
SuccessCase_KeepsError(s, a) ==
  [s EXCEPT !.user = a.payload, !.isAuthenticated = TRUE, !.isLoading = FALSE]

SuccessCase(s, a) ==
  [s EXCEPT !.user = a.payload, !.isAuthenticated = TRUE,
            !.isLoading = FALSE, !.error = Null]

\* mutant: the failure case does not end loading
FailureCase_KeepsLoading(s, a) ==
  [s EXCEPT !.user = Null, !.isAuthenticated = FALSE, !.error = a.payload]

\* mutant: the failure case leaves the user in place
FailureCase_KeepsUser(s, a) ==
  [s EXCEPT !.isAuthenticated = FALSE, !.isLoading = FALSE,
            !.error = a.payload]

FailureCase(s, a) ==
  [s EXCEPT !.user = Null, !.isAuthenticated = FALSE,
            !.isLoading = FALSE, !.error = a.payload]

\* mutant: the logout case leaves the error of the former state
LogoutCase_KeepsError(s, a) ==
  [s EXCEPT !.user = Null, !.isAuthenticated = FALSE, !.isLoading = FALSE]

LogoutCase(s, a) ==
  [s EXCEPT !.user = Null, !.isAuthenticated = FALSE,
            !.isLoading = FALSE, !.error = Null]

UpdateProfileCase(s, a) ==
  [s EXCEPT !.user = Merge(s.user, a.payload), !.error = Null]

\* mutant: clearing the error also ends loading
ClearErrorCase_StopsLoading(s, a) ==
  [s EXCEPT !.isLoading = FALSE, !.error = Null]

ClearErrorCase(s, a) == [s EXCEPT !.error = Null]

\* mutant: the default case resets the store
authReducer_DefaultResets(s, a) ==
  CASE a.type \in StartTypes -> StartCase(s, a)
    [] a.type \in SuccessTypes -> SuccessCase(s, a)
    [] a.type \in FailureTypes -> FailureCase(s, a)
    [] a.type = "LOGOUT" -> LogoutCase(s, a)
    [] a.type = "UPDATE_PROFILE_SUCCESS" -> UpdateProfileCase(s, a)
    [] a.type = "CLEAR_ERROR" -> ClearErrorCase(s, a)
    [] OTHER -> initialState

authReducer(s, a) ==
  CASE a.type \in StartTypes -> StartCase(s, a)
    [] a.type \in SuccessTypes -> SuccessCase(s, a)
    [] a.type \in FailureTypes -> FailureCase(s, a)
    [] a.type = "LOGOUT" -> LogoutCase(s, a)
    [] a.type = "UPDATE_PROFILE_SUCCESS" -> UpdateProfileCase(s, a)
    [] a.type = "CLEAR_ERROR" -> ClearErrorCase(s, a)
    [] OTHER -> s

(***************************************************************************)
(* Values the collaborator (apiService) may produce.                       *)
(***************************************************************************)
ProfileFields == {"name", "email"}

FieldValues(f) == IF f = "name" THEN {"A", "X"} ELSE {"a@b.c"}

\* every record over a subset of ProfileFields
Profiles ==
  {Obj(h) : h \in UNION {{g \in [D -> {"A", "X", "a@b.c"}] :
                            \A f \in D : g[f] \in FieldValues(f)} :
                          D \in SUBSET ProfileFields}}

\* the profiles the collaborator returns in the orchestrator runs
ServerProfiles ==
  {Obj([name |-> "A", email |-> "a@b.c"]), Obj([name |-> "X"])}

Messages == {"Network Error", "Bad login"}

Tokens == {Null, Str("tok")}

VARIABLES
  state,       \* the store: [user, isAuthenticated, isLoading, error]
  token,       \* the stored token, as getAuthToken() returns it
  init,        \* the loadUser call of the mount effect
  calls,       \* the user-initiated calls, by call number
  lastAction,  \* the action reduced last
  prev,        \* the state that action was reduced from
  lookup       \* what useAuth() gave a consumer last, inside and outside
               \* a provider

vars == <<state, token, init, calls, lastAction, prev, lookup>>

(***************************************************************************)
(* Bookkeeping of a call: what it did, in order, what the collaborator     *)
(* answered and what the caller got.                                       *)
(***************************************************************************)
Pending == [status |-> "pending"]

Resolved(v) == [status |-> "resolved", value |-> v]

Rejected(e) == [status |-> "rejected", error |-> e]

Returned(v) == [status |-> "returned", value |-> v]

Threw(e) == [status |-> "threw", error |-> e]

ApiEv(fn) == [ev |-> "api", fn |-> fn]

\* a dispatch, with the state the reducer produced from the current one
DispEv(a) == [ev |-> "dispatch", action |-> a, after |-> authReducer(state, a)]

NoCall ==
  [op |-> "none", pc |-> "none", trace |-> <<>>, api |-> Pending,
   result |-> Pending]

Errors == {Err(m) : m \in Messages}

\* login and register resolve to a response { user }
Responses == {[user |-> p] : p \in ServerProfiles}

CallIds == 1..MaxCalls

\* calls are numbered in the order they are made
Fresh(c) == /\ calls[c].op = "none"
            /\ \A d \in CallIds : d < c => calls[d].op # "none"

Awaiting(c, op) == calls[c].op = op /\ calls[c].pc = "await"

\* dispatch(a) of useReducer: the store becomes authReducer(state, a)
Dispatch(a) ==
  /\ state' = authReducer(state, a)
  /\ lastAction' = a
  /\ prev' = state

NoDispatch == UNCHANGED <<state, lastAction, prev>>

Started(c, op, tr) ==
  calls' = [calls EXCEPT ![c] =
              [op |-> op, pc |-> "await", trace |-> tr, api |-> Pending,
               result |-> Pending]]

Finished(c, tr, api, res) ==
  calls' = [calls EXCEPT ![c] =
              [op |-> calls[c].op, pc |-> "done",
               trace |-> calls[c].trace \o tr, api |-> api, result |-> res]]

(***************************************************************************)
(* loadUser, run by the mount effect.                                      *)
(***************************************************************************)
NoTokenFailure == Action("LOAD_USER_FAILURE", Str("No token found"))

\* mutant: LOAD_USER_START is dispatched before the token is looked at
LoadUserMount_StartFirst ==
  /\ init.pc = "mount"
  /\ IF ~Truthy(token)
       THEN /\ state' = authReducer(
                          authReducer(state, Action("LOAD_USER_START", Undefined)),
                          NoTokenFailure)
            /\ lastAction' = NoTokenFailure
            /\ prev' = authReducer(state, Action("LOAD_USER_START", Undefined))
            /\ init' = [init EXCEPT !.pc = "done", !.token = token,
                          !.trace = <<ApiEv("getAuthToken"),
                                      DispEv(Action("LOAD_USER_START", Undefined)),
                                      DispEv(NoTokenFailure)>>]
       ELSE /\ Dispatch(Action("LOAD_USER_START", Undefined))
            /\ init' = [init EXCEPT !.pc = "await", !.token = token,
                          !.trace = <<ApiEv("getAuthToken"),
                                      DispEv(Action("LOAD_USER_START", Undefined)),
                                      ApiEv("getProfile")>>]
  /\ UNCHANGED <<token, calls, lookup>>

\* loadUser up to the await of getProfile()
LoadUserMount ==
  /\ init.pc = "mount"
  /\ IF ~Truthy(token)
       THEN /\ Dispatch(NoTokenFailure)
            /\ init' = [init EXCEPT !.pc = "done", !.token = token,
                          !.trace = <<ApiEv("getAuthToken"),
                                      DispEv(NoTokenFailure)>>]
       ELSE /\ Dispatch(Action("LOAD_USER_START", Undefined))
            /\ init' = [init EXCEPT !.pc = "await", !.token = token,
                          !.trace = <<ApiEv("getAuthToken"),
                                      DispEv(Action("LOAD_USER_START", Undefined)),
                                      ApiEv("getProfile")>>]
  /\ UNCHANGED <<token, calls, lookup>>

\* mutant: the token is removed after a successful fetch as well
LoadUserResolved_DropsToken(user) ==
  /\ init.pc = "await"
  /\ Dispatch(Action("LOAD_USER_SUCCESS", user))
  /\ token' = Null
  /\ init' = [init EXCEPT !.pc = "done", !.api = Resolved(user),
                !.trace = @ \o <<DispEv(Action("LOAD_USER_SUCCESS", user)),
                                 ApiEv("removeAuthToken")>>]
  /\ UNCHANGED <<calls, lookup>>

\* getProfile() resolved with user
LoadUserResolved(user) ==
  /\ init.pc = "await"
  /\ Dispatch(Action("LOAD_USER_SUCCESS", user))
  /\ init' = [init EXCEPT !.pc = "done", !.api = Resolved(user),
                !.trace = @ \o <<DispEv(Action("LOAD_USER_SUCCESS", user))>>]
  /\ UNCHANGED <<token, calls, lookup>>

\* mutant: the catch block does not call removeAuthToken
LoadUserRejected_KeepsToken(error) ==
  /\ init.pc = "await"
  /\ Dispatch(Action("LOAD_USER_FAILURE", error.message))
  /\ init' = [init EXCEPT !.pc = "done", !.api = Rejected(error),
                !.trace = @ \o <<DispEv(Action("LOAD_USER_FAILURE", error.message))>>]
  /\ UNCHANGED <<token, calls, lookup>>

\* getProfile() rejected with error: the catch block
LoadUserRejected(error) ==
  /\ init.pc = "await"
  /\ Dispatch(Action("LOAD_USER_FAILURE", error.message))
  /\ token' = Null
  /\ init' = [init EXCEPT !.pc = "done", !.api = Rejected(error),
                !.trace = @ \o <<DispEv(Action("LOAD_USER_FAILURE", error.message)),
                                 ApiEv("removeAuthToken")>>]
  /\ UNCHANGED <<calls, lookup>>

(***************************************************************************)
(* login                                                                   *)
(***************************************************************************)
login(c) ==
  /\ Fresh(c)
  /\ Dispatch(Action("LOGIN_START", Undefined))
  /\ Started(c, "login", <<DispEv(Action("LOGIN_START", Undefined)),
                           ApiEv("login")>>)
  /\ UNCHANGED <<token, init, lookup>>

loginResolved(c, response) ==
  /\ Awaiting(c, "login")
  /\ Dispatch(Action("LOGIN_SUCCESS", response.user))
  /\ Finished(c, <<DispEv(Action("LOGIN_SUCCESS", response.user))>>,
              Resolved(response), Returned(response))
  /\ UNCHANGED <<token, init, lookup>>

\* mutant: the catch block rethrows without dispatching LOGIN_FAILURE
loginRejected_ThrowOnly(c, error) ==
  /\ Awaiting(c, "login")
  /\ NoDispatch
  /\ Finished(c, <<>>, Rejected(error), Threw(error))
  /\ UNCHANGED <<token, init, lookup>>

loginRejected(c, error) ==
  /\ Awaiting(c, "login")
  /\ Dispatch(Action("LOGIN_FAILURE", error.message))
  /\ Finished(c, <<DispEv(Action("LOGIN_FAILURE", error.message))>>,
              Rejected(error), Threw(error))
  /\ UNCHANGED <<token, init, lookup>>

(***************************************************************************)
(* register                                                                *)
(***************************************************************************)
register(c) ==
  /\ Fresh(c)
  /\ Dispatch(Action("REGISTER_START", Undefined))
  /\ Started(c, "register", <<DispEv(Action("REGISTER_START", Undefined)),
                              ApiEv("register")>>)
  /\ UNCHANGED <<token, init, lookup>>

registerResolved(c, response) ==
  /\ Awaiting(c, "register")
  /\ Dispatch(Action("REGISTER_SUCCESS", response.user))
  /\ Finished(c, <<DispEv(Action("REGISTER_SUCCESS", response.user))>>,
              Resolved(response), Returned(response))
  /\ UNCHANGED <<token, init, lookup>>

registerRejected(c, error) ==
  /\ Awaiting(c, "register")
  /\ Dispatch(Action("REGISTER_FAILURE", error.message))
  /\ Finished(c, <<DispEv(Action("REGISTER_FAILURE", error.message))>>,
              Rejected(error), Threw(error))
  /\ UNCHANGED <<token, init, lookup>>

(***************************************************************************)
(* logout                                                                  *)
(***************************************************************************)
logout(c) ==
  /\ Fresh(c)
  /\ Started(c, "logout", <<ApiEv("logout")>>)
  /\ NoDispatch
  /\ UNCHANGED <<token, init, lookup>>

\* apiService.logout() resolved: the finally block dispatches
logoutResolved(c) ==
  /\ Awaiting(c, "logout")
  /\ Dispatch(Action("LOGOUT", Undefined))
  /\ Finished(c, <<DispEv(Action("LOGOUT", Undefined))>>,
              Resolved(Undefined), Returned(Undefined))
  /\ UNCHANGED <<token, init, lookup>>

\* mutant: the catch block rethrows after logging
logoutRejected_Rethrows(c, error) ==
  /\ Awaiting(c, "logout")
  /\ Dispatch(Action("LOGOUT", Undefined))
  /\ Finished(c, <<DispEv(Action("LOGOUT", Undefined))>>,
              Rejected(error), Threw(error))
  /\ UNCHANGED <<token, init, lookup>>

\* mutant: LOGOUT is dispatched in the try block, so not after a rejection
logoutRejected_NoDispatch(c, error) ==
  /\ Awaiting(c, "logout")
  /\ NoDispatch
  /\ Finished(c, <<>>, Rejected(error), Returned(Undefined))
  /\ UNCHANGED <<token, init, lookup>>

\* apiService.logout() rejected: the error is logged, the finally block
\* dispatches and the call returns normally
logoutRejected(c, error) ==
  /\ Awaiting(c, "logout")
  /\ Dispatch(Action("LOGOUT", Undefined))
  /\ Finished(c, <<DispEv(Action("LOGOUT", Undefined))>>,
              Rejected(error), Returned(Undefined))
  /\ UNCHANGED <<token, init, lookup>>

(***************************************************************************)
(* updateProfile                                                           *)
(***************************************************************************)
updateProfile(c) ==
  /\ Fresh(c)
  /\ Started(c, "updateProfile", <<ApiEv("updateProfile")>>)
  /\ NoDispatch
  /\ UNCHANGED <<token, init, lookup>>

updateProfileResolved(c, updatedUser) ==
  /\ Awaiting(c, "updateProfile")
  /\ Dispatch(Action("UPDATE_PROFILE_SUCCESS", updatedUser))
  /\ Finished(c, <<DispEv(Action("UPDATE_PROFILE_SUCCESS", updatedUser))>>,
              Resolved(updatedUser), Returned(updatedUser))
  /\ UNCHANGED <<token, init, lookup>>

\* mutant: a failed updateProfile records the message in the store
updateProfileRejected_SetsError(c, error) ==
  /\ Awaiting(c, "updateProfile")
  /\ Dispatch(Action("LOAD_USER_FAILURE", error.message))
  /\ Finished(c, <<DispEv(Action("LOAD_USER_FAILURE", error.message))>>,
              Rejected(error), Threw(error))
  /\ UNCHANGED <<token, init, lookup>>

updateProfileRejected(c, error) ==
  /\ Awaiting(c, "updateProfile")
  /\ NoDispatch
  /\ Finished(c, <<>>, Rejected(error), Threw(error))
  /\ UNCHANGED <<token, init, lookup>>

(***************************************************************************)
(* forgotPassword, resetPassword: the collaborator's answer is handed to   *)
(* the caller as it is                                                     *)
(***************************************************************************)
Ack == Obj([message |-> "ok"])

forgotPassword(c) ==
  /\ Fresh(c)
  /\ Started(c, "forgotPassword", <<ApiEv("forgotPassword")>>)
  /\ NoDispatch
  /\ UNCHANGED <<token, init, lookup>>

\* mutant: a successful forgotPassword also clears the error
forgotPasswordResolved_ClearsError(c, ack) ==
  /\ Awaiting(c, "forgotPassword")
  /\ Dispatch(Action("CLEAR_ERROR", Undefined))
  /\ Finished(c, <<DispEv(Action("CLEAR_ERROR", Undefined))>>,
              Resolved(ack), Returned(ack))
  /\ UNCHANGED <<token, init, lookup>>

forgotPasswordResolved(c, ack) ==
  /\ Awaiting(c, "forgotPassword")
  /\ NoDispatch
  /\ Finished(c, <<>>, Resolved(ack), Returned(ack))
  /\ UNCHANGED <<token, init, lookup>>

forgotPasswordRejected(c, error) ==
  /\ Awaiting(c, "forgotPassword")
  /\ NoDispatch
  /\ Finished(c, <<>>, Rejected(error), Threw(error))
  /\ UNCHANGED <<token, init, lookup>>

resetPassword(c) ==
  /\ Fresh(c)
  /\ Started(c, "resetPassword", <<ApiEv("resetPassword")>>)
  /\ NoDispatch
  /\ UNCHANGED <<token, init, lookup>>

resetPasswordResolved(c, ack) ==
  /\ Awaiting(c, "resetPassword")
  /\ NoDispatch
  /\ Finished(c, <<>>, Resolved(ack), Returned(ack))
  /\ UNCHANGED <<token, init, lookup>>

resetPasswordRejected(c, error) ==
  /\ Awaiting(c, "resetPassword")
  /\ NoDispatch
  /\ Finished(c, <<>>, Rejected(error), Threw(error))
  /\ UNCHANGED <<token, init, lookup>>

(***************************************************************************)
(* clearError: synchronous                                                 *)
(***************************************************************************)
clearError(c) ==
  /\ Fresh(c)
  /\ Dispatch(Action("CLEAR_ERROR", Undefined))
  /\ calls' = [calls EXCEPT ![c] =
                 [op |-> "clearError", pc |-> "done",
                  trace |-> <<DispEv(Action("CLEAR_ERROR", Undefined))>>,
                  api |-> Pending, result |-> Returned(Undefined)]]
  /\ UNCHANGED <<token, init, lookup>>

(***************************************************************************)
(* The provider: the state after useReducer(authReducer, initialState),    *)
(* the mount effect not yet run, no call made.                             *)
(***************************************************************************)
NoAction == Action("@@INIT", Undefined)

\* no consumer has called useAuth() yet
NoLookup == [inProvider \in BOOLEAN |-> Pending]

Init ==
  /\ state = initialState
  /\ token \in Tokens
  /\ init = [pc |-> "mount", token |-> Undefined, trace |-> <<>>,
             api |-> Pending]
  /\ calls = [c \in CallIds |-> NoCall]
  /\ lastAction = NoAction
  /\ prev = initialState
  /\ lookup = NoLookup

Next ==
  \/ LoadUserMount
  \/ \E user \in ServerProfiles : LoadUserResolved(user)
  \/ \E error \in Errors : LoadUserRejected(error)
  \/ \E c \in CallIds : login(c)
  \/ \E c \in CallIds, response \in Responses : loginResolved(c, response)
  \/ \E c \in CallIds, error \in Errors : loginRejected(c, error)
  \/ \E c \in CallIds : register(c)
  \/ \E c \in CallIds, response \in Responses : registerResolved(c, response)
  \/ \E c \in CallIds, error \in Errors : registerRejected(c, error)
  \/ \E c \in CallIds : logout(c)
  \/ \E c \in CallIds : logoutResolved(c)
  \/ \E c \in CallIds, error \in Errors : logoutRejected(c, error)
  \/ \E c \in CallIds : updateProfile(c)
  \/ \E c \in CallIds, updatedUser \in ServerProfiles :
       updateProfileResolved(c, updatedUser)
  \/ \E c \in CallIds, error \in Errors : updateProfileRejected(c, error)
  \/ \E c \in CallIds : forgotPassword(c)
  \/ \E c \in CallIds : forgotPasswordResolved(c, Ack)
  \/ \E c \in CallIds, error \in Errors : forgotPasswordRejected(c, error)
  \/ \E c \in CallIds : resetPassword(c)
  \/ \E c \in CallIds : resetPasswordResolved(c, Ack)
  \/ \E c \in CallIds, error \in Errors : resetPasswordRejected(c, error)
  \/ \E c \in CallIds : clearError(c)

Spec == Init /\ [][Next]_vars

(***************************************************************************)
(* The reducer alone: one application, to any state and any action.        *)
(***************************************************************************)
Payloads ==
  {Undefined, Null} \cup Profiles \cup {Str(m) : m \in Messages}
    \cup {Str("No token found")}

AuthStates ==
  [user : {Null} \cup Profiles, isAuthenticated : BOOLEAN,
   isLoading : BOOLEAN, error : {Null} \cup {Str(m) : m \in Messages}]

\* types that match no case of the switch (the match is case-sensitive)
UnknownTypes == {"UNKNOWN", "login_success"}

ActionTypes == AUTH_ACTIONS \cup UnknownTypes

ReduceInit ==
  /\ state \in AuthStates
  /\ token = Null
  /\ init = [pc |-> "done", token |-> Undefined, trace |-> <<>>,
             api |-> Pending]
  /\ calls = [c \in CallIds |-> NoCall]
  /\ lastAction = NoAction
  /\ prev = state
  /\ lookup = NoLookup

Reduce(a) ==
  /\ lastAction = NoAction
  /\ Dispatch(a)
  /\ UNCHANGED <<token, init, calls, lookup>>

ReduceNext == \E t \in ActionTypes, p \in Payloads : Reduce(Action(t, p))

ReduceSpec == ReduceInit /\ [][ReduceNext]_vars

(***************************************************************************)
(* clearError alone, called from any state of the store.                   *)
(***************************************************************************)
ClearErrorNext == \E c \in CallIds : clearError(c)

ClearErrorSpec == ReduceInit /\ [][ClearErrorNext]_vars

(***************************************************************************)
(* The consumer side: the value the provider publishes, and useAuth().     *)
(***************************************************************************)
ActionFunctions ==
  {"login", "register", "logout", "updateProfile", "forgotPassword",
   "resetPassword", "clearError"}

StateFields == {"user", "isAuthenticated", "isLoading", "error"}

\* { ...state, login, register, ... }
value(s) ==
  Obj([k \in StateFields \cup ActionFunctions |->
         IF k \in StateFields THEN s[k] ELSE [kind |-> "function", name |-> k]])

\* useContext(AuthContext): the provider's value, or the default of
\* createContext(), undefined, outside any provider
useContext(inProvider) == IF inProvider THEN value(state) ELSE Undefined

\* mutant: the hook hands out the context without looking at it
useAuth_NoCheck(context) == Returned(context)

useAuth(context) ==
  IF ~Truthy(context)
    THEN Threw(Err("useAuth must be used within an AuthProvider"))
    ELSE Returned(context)

\* a consumer, rendered inside or outside a provider, calls useAuth()
Consume(inProvider) ==
  /\ lookup' = [lookup EXCEPT ![inProvider] = useAuth(useContext(inProvider))]
  /\ UNCHANGED <<state, token, init, calls, lastAction, prev>>

ConsumeNext == \E inProvider \in BOOLEAN : Consume(inProvider)

\* consumers reading the store in any state
LookupSpec == ReduceInit /\ [][ConsumeNext]_vars

(***************************************************************************)
(* Vocabulary of the properties.                                           *)
(***************************************************************************)
IsDispatch(e) == e.ev = "dispatch"

IsApi(e) == e.ev = "api"

Dispatches(tr) == SelectSeq(tr, IsDispatch)

ApiCalls(tr) == SelectSeq(tr, IsApi)

\* a value is present when it is neither null nor undefined
Present(v) == v.kind \notin {"null", "undefined"}

LoggedOut ==
  [user |-> Null, isAuthenticated |-> FALSE, isLoading |-> FALSE, error |-> Null]

LoggedIn(u) ==
  [user |-> u, isAuthenticated |-> TRUE, isLoading |-> FALSE, error |-> Null]

Failed(m) ==
  [user |-> Null, isAuthenticated |-> FALSE, isLoading |-> FALSE, error |-> m]

Done(c, op) == calls[c].op = op /\ calls[c].pc = "done"

(***************************************************************************)
(* C1: in every reachable state of the provider, isAuthenticated is true   *)
(* if and only if user is present.                                         *)
(***************************************************************************)
C1_AuthenticatedIffUser == state.isAuthenticated <=> Present(state.user)

(***************************************************************************)
(* C2: reducing a success action (login, register, loadUser) from any      *)
(* state gives user = payload, isAuthenticated = true, isLoading = false,  *)
(* error = absent.                                                         *)
(***************************************************************************)
C2_SuccessResult ==
  lastAction.type \in SuccessTypes => state = LoggedIn(lastAction.payload)

\* a success reduced from a state that had another user, an error and
\* isLoading set
C2_Witness ==
  /\ lastAction.type \in SuccessTypes
  /\ prev.error # Null /\ prev.isLoading /\ ~prev.isAuthenticated
  /\ prev.user # Null /\ prev.user # lastAction.payload
  /\ state = LoggedIn(lastAction.payload)

(***************************************************************************)
(* C3: reducing a failure action (login, register, loadUser) from any      *)
(* state gives user = absent, isAuthenticated = false, isLoading = false,  *)
(* error = payload.                                                        *)
(***************************************************************************)
C3_FailureResult ==
  lastAction.type \in FailureTypes => state = Failed(lastAction.payload)

\* a failure reduced from an authenticated, loading state with a user
C3_Witness ==
  /\ lastAction.type \in FailureTypes
  /\ prev.isAuthenticated /\ prev.isLoading /\ prev.user # Null
  /\ prev.error # lastAction.payload
  /\ lastAction.payload = Str("Network Error")
  /\ state = Failed(Str("Network Error"))

(***************************************************************************)
(* C4: a completed logout() has dispatched the logout action exactly once, *)
(* whether the collaborator's logout resolved or rejected, and the state   *)
(* that dispatch produced is the logged-out state.                         *)
(***************************************************************************)
C4_LogoutDispatchesOnce ==
  \A c \in CallIds :
    Done(c, "logout") =>
      LET d == Dispatches(calls[c].trace)
      IN /\ Len(d) = 1
         /\ d[1].action.type = "LOGOUT"
         /\ d[1].after = LoggedOut

\* a logout whose collaborator call rejected, made while a user was logged in
C4_Witness ==
  \E c \in CallIds :
    /\ Done(c, "logout")
    /\ calls[c].api.status = "rejected"
    /\ lastAction.type = "LOGOUT"
    /\ prev.isAuthenticated /\ Present(prev.user)
    /\ state = LoggedOut

(***************************************************************************)
(* C5: when the collaborator call of login or register rejects, the        *)
(* matching failure action is dispatched with the error's message (so      *)
(* error = message and isAuthenticated = false) and the same error is      *)
(* thrown to the caller; the caller never gets an error from login or      *)
(* register without that failure dispatch as the call's last step.         *)
(***************************************************************************)
FailureTypeOf(op) == IF op = "login" THEN "LOGIN_FAILURE" ELSE "REGISTER_FAILURE"

C5_FailureDispatchedThenRaised ==
  \A c \in CallIds :
    calls[c].op \in {"login", "register"} =>
      LET tr == calls[c].trace
          last == tr[Len(tr)]
      IN /\ calls[c].api.status = "rejected" =>
              /\ calls[c].result = Threw(calls[c].api.error)
              /\ Len(Dispatches(tr)) = 2
              /\ last.ev = "dispatch"
              /\ last.action = Action(FailureTypeOf(calls[c].op),
                                      calls[c].api.error.message)
              /\ last.after.error = calls[c].api.error.message
              /\ ~last.after.isAuthenticated
         /\ calls[c].result.status = "threw" =>
              /\ calls[c].api = Rejected(calls[c].result.error)
              /\ last.ev = "dispatch"
              /\ last.action.type = FailureTypeOf(calls[c].op)

\* a login and a register that both failed, the second one's message in
\* the state
C5_Witness ==
  \E c, d \in CallIds :
    /\ Done(c, "login") /\ calls[c].result = Threw(Err("Bad login"))
    /\ Done(d, "register") /\ calls[d].result = Threw(Err("Network Error"))
    /\ state.error \in {Str("Bad login"), Str("Network Error")}
    /\ ~state.isAuthenticated

(***************************************************************************)
(* C6: loadUser with no stored token dispatches loadUser-failure with      *)
(* "No token found" in the step that read the token, with no               *)
(* loadUser-start, no getProfile and no removeAuthToken, and that dispatch *)
(* produces user absent, not authenticated, not loading, error = "No token *)
(* found".                                                                 *)
(***************************************************************************)
C6_NoTokenInit ==
  (init.pc # "mount" /\ ~Truthy(init.token)) =>
    /\ init.pc = "done"
    /\ init.api = Pending
    /\ token = init.token
    /\ init.trace =
         <<[ev |-> "api", fn |-> "getAuthToken"],
           [ev |-> "dispatch",
            action |-> [type |-> "LOAD_USER_FAILURE",
                        payload |-> Str("No token found")],
            after |-> Failed(Str("No token found"))]>>

\* the mount effect has run with no token and its failure is the last action
C6_Witness ==
  /\ init.pc = "done" /\ init.token = Null
  /\ lastAction = Action("LOAD_USER_FAILURE", Str("No token found"))
  /\ state = Failed(Str("No token found"))

(***************************************************************************)
(* C7: loadUser with a stored token and a resolving getProfile dispatches  *)
(* loadUser-start, then loadUser-success with the fetched profile; that    *)
(* dispatch produces the logged-in state of the profile, which is the      *)
(* state when no user call was made, and the stored token stays.           *)
(***************************************************************************)
C7_TokenAndProfile ==
  init.api.status = "resolved" =>
    LET tr == init.trace
        profile == init.api.value
    IN /\ init.pc = "done"
       /\ Truthy(init.token)
       /\ token = init.token
       /\ Len(tr) = 4
       /\ tr[1] = [ev |-> "api", fn |-> "getAuthToken"]
       /\ tr[2].ev = "dispatch" /\ tr[2].action.type = "LOAD_USER_START"
       /\ tr[3] = [ev |-> "api", fn |-> "getProfile"]
       /\ tr[4].ev = "dispatch"
       /\ tr[4].action = [type |-> "LOAD_USER_SUCCESS", payload |-> profile]
       /\ tr[4].after = LoggedIn(profile)
       /\ (\A c \in CallIds : calls[c].op = "none") => state = LoggedIn(profile)

\* the profile was fetched, no user call was made, the token is still there
C7_Witness ==
  /\ init.api = Resolved(Obj([name |-> "A", email |-> "a@b.c"]))
  /\ \A c \in CallIds : calls[c].op = "none"
  /\ state = LoggedIn(Obj([name |-> "A", email |-> "a@b.c"]))
  /\ token = Str("tok")

(***************************************************************************)
(* C8: loadUser with a stored token and a rejecting getProfile dispatches  *)
(* loadUser-failure with the error's message and then calls                *)
(* removeAuthToken; removeAuthToken is called on no other path of          *)
(* loadUser and by no user call, and the token is otherwise left alone.    *)
(***************************************************************************)
IsRemoval(e) == e = [ev |-> "api", fn |-> "removeAuthToken"]

Removals(tr) == Len(SelectSeq(tr, IsRemoval))

C8_TokenDiscardedOnlyOnFetchFailure ==
  /\ init.api.status = "rejected" =>
       LET tr == init.trace
       IN /\ Truthy(init.token)
          /\ Len(tr) = 5
          /\ tr[4].ev = "dispatch"
          /\ tr[4].action = [type |-> "LOAD_USER_FAILURE",
                             payload |-> init.api.error.message]
          /\ tr[4].after = Failed(init.api.error.message)
          /\ IsRemoval(tr[5])
          /\ Removals(tr) = 1
          /\ token = Null
  /\ init.api.status # "rejected" =>
       /\ Removals(init.trace) = 0
       /\ init.pc # "mount" => token = init.token
  /\ \A c \in CallIds : Removals(calls[c].trace) = 0

\* the fetch failed and the token is gone, after a login and a logout that
\* completed
C8_Witness ==
  /\ init.api = Rejected(Err("Network Error"))
  /\ init.token = Str("tok") /\ token = Null
  /\ \E c, d \in CallIds : Done(c, "login") /\ Done(d, "logout")

(***************************************************************************)
(* C9: reducing profile-updated gives a user with every field of the       *)
(* payload at the payload's value and every other field of the former user *)
(* unchanged, error absent, isAuthenticated and isLoading unchanged;       *)
(* {name:"X"} on {name:"A",email:"a@b.c"} gives {name:"X",email:"a@b.c"}.  *)
(***************************************************************************)
C9_ProfileMerged ==
  lastAction.type = "UPDATE_PROFILE_SUCCESS" =>
    LET pf == Spread(lastAction.payload)
        uf == Spread(prev.user)
    IN /\ state.user.kind = "object"
       /\ DOMAIN state.user.fields = (DOMAIN pf) \cup (DOMAIN uf)
       /\ \A f \in DOMAIN pf : state.user.fields[f] = pf[f]
       /\ \A f \in (DOMAIN uf) \ (DOMAIN pf) : state.user.fields[f] = uf[f]
       /\ state.error = Null
       /\ state.isAuthenticated = prev.isAuthenticated
       /\ state.isLoading = prev.isLoading
       /\ (/\ prev.user = Obj([name |-> "A", email |-> "a@b.c"])
           /\ lastAction.payload = Obj([name |-> "X"]))
            => state.user = Obj([name |-> "X", email |-> "a@b.c"])

\* the example of the specification, from a state with an error
C9_Witness ==
  /\ lastAction = Action("UPDATE_PROFILE_SUCCESS", Obj([name |-> "X"]))
  /\ prev.user = Obj([name |-> "A", email |-> "a@b.c"])
  /\ prev.error # Null /\ prev.isLoading /\ prev.isAuthenticated
  /\ state.user = Obj([name |-> "X", email |-> "a@b.c"])

(***************************************************************************)
(* C10: each user call issues at most one call to the API client and       *)
(* applies exactly one resulting state transition.                         *)
(***************************************************************************)
IsResultDispatch(e) == e.ev = "dispatch" /\ e.action.type \notin StartTypes

ResultDispatches(tr) == Len(SelectSeq(tr, IsResultDispatch))

\* the claim as stated: exactly one resulting transition for every call
C10_ExactlyOneTransition ==
  \A c \in CallIds :
    calls[c].pc = "done" =>
      /\ Len(ApiCalls(calls[c].trace)) <= 1
      /\ ResultDispatches(calls[c].trace) = 1

\* the resulting transitions a finished call applies
ResultTransitions(c) ==
  IF \/ calls[c].op \in {"forgotPassword", "resetPassword"}
     \/ calls[c].op = "updateProfile" /\ calls[c].result.status = "threw"
    THEN 0 ELSE 1

\* C10, amended: at most one API call per user call, and at most one
\* resulting transition: one for login, register, logout, clearError and an
\* updateProfile that succeeded, none for forgotPassword, resetPassword and
\* an updateProfile that failed; login and register apply their start
\* transition before the call, and nothing else is dispatched.
C10_AtMostOneTransition ==
  \A c \in CallIds :
    LET tr == calls[c].trace
    IN /\ Len(ApiCalls(tr)) <= 1
       /\ calls[c].pc = "await" =>
            /\ Len(ApiCalls(tr)) = 1
            /\ ResultDispatches(tr) = 0
       /\ calls[c].pc = "done" =>
            /\ ResultDispatches(tr) = ResultTransitions(c)
            /\ Len(Dispatches(tr)) =
                 ResultTransitions(c)
                   + (IF calls[c].op \in {"login", "register"} THEN 1 ELSE 0)
            /\ Len(ApiCalls(tr)) = (IF calls[c].op = "clearError" THEN 0 ELSE 1)

\* a forgotPassword that returned and an updateProfile that failed: two
\* finished calls with no transition
C10_Witness ==
  \E c, d \in CallIds :
    /\ Done(c, "forgotPassword") /\ calls[c].result.status = "returned"
    /\ Done(d, "updateProfile") /\ calls[d].result.status = "threw"
    /\ Dispatches(calls[c].trace) = <<>> /\ Dispatches(calls[d].trace) = <<>>

(***************************************************************************)
(* C11: no step of forgotPassword or resetPassword changes the store,      *)
(* whatever the collaborator answers; a step of updateProfile changes it   *)
(* only when the collaborator resolved, and then by reducing               *)
(* profile-updated with the returned profile; when the collaborator        *)
(* rejected, the store is unchanged and the error is thrown to the caller. *)
(***************************************************************************)
StepOf(c, ops) == calls'[c].op \in ops /\ calls'[c] # calls[c]

C11_Frame ==
  \A c \in CallIds :
    /\ StepOf(c, {"forgotPassword", "resetPassword"}) =>
         /\ state' = state
         /\ calls'[c].pc = "done" =>
              \/ /\ calls'[c].api.status = "resolved"
                 /\ calls'[c].result = Returned(calls'[c].api.value)
              \/ /\ calls'[c].api.status = "rejected"
                 /\ calls'[c].result = Threw(calls'[c].api.error)
    /\ StepOf(c, {"updateProfile"}) =>
         IF calls'[c].pc = "done" /\ calls'[c].api.status = "resolved"
           THEN LET p == calls'[c].api.value
                    pf == Spread(p)
                    uf == Spread(state.user)
                IN /\ lastAction' = [type |-> "UPDATE_PROFILE_SUCCESS",
                                     payload |-> p]
                   /\ state' =
                        [state EXCEPT
                           !.user = Obj([f \in (DOMAIN uf) \cup (DOMAIN pf) |->
                                           IF f \in DOMAIN pf THEN pf[f]
                                                              ELSE uf[f]]),
                           !.error = Null]
                   /\ calls'[c].result = Returned(p)
           ELSE /\ state' = state
                /\ calls'[c].pc = "done" =>
                     /\ calls'[c].api.status = "rejected"
                     /\ calls'[c].result = Threw(calls'[c].api.error)

C11_PasswordAndProfileFrame == [][C11_Frame]_vars

\* a resetPassword that failed and an updateProfile that succeeded, the
\* latter's transition being the last one
C11_Witness ==
  \E c, d \in CallIds :
    /\ Done(c, "resetPassword") /\ calls[c].result = Threw(Err("Bad login"))
    /\ Done(d, "updateProfile") /\ calls[d].result.status = "returned"
    /\ lastAction = Action("UPDATE_PROFILE_SUCCESS", calls[d].result.value)

(***************************************************************************)
(* C12: reducing a start action (login, register, loadUser) from any state *)
(* gives isLoading = true and error = absent, and leaves user and          *)
(* isAuthenticated as they were.                                           *)
(***************************************************************************)
C12_StartResult ==
  lastAction.type \in StartTypes =>
    /\ state.isLoading = TRUE
    /\ state.error = Null
    /\ state.user = prev.user
    /\ state.isAuthenticated = prev.isAuthenticated

\* a start reduced from an authenticated, idle state with a user and an error
C12_Witness ==
  /\ lastAction.type \in StartTypes
  /\ prev.isAuthenticated /\ Present(prev.user) /\ Present(prev.error)
  /\ ~prev.isLoading
  /\ state.isLoading /\ state.user = prev.user /\ state.isAuthenticated

(***************************************************************************)
(* C13: clearError() dispatches error-cleared, and reducing it from any    *)
(* state sets error = absent and leaves user, isAuthenticated and          *)
(* isLoading as they were.                                                 *)
(***************************************************************************)
C13_ClearErrorFrame ==
  /\ lastAction.type = "CLEAR_ERROR" =>
       /\ state.error = Null
       /\ state.user = prev.user
       /\ state.isAuthenticated = prev.isAuthenticated
       /\ state.isLoading = prev.isLoading
  /\ \A c \in CallIds :
       Done(c, "clearError") =>
         /\ Len(calls[c].trace) = 1
         /\ calls[c].trace[1].ev = "dispatch"
         /\ calls[c].trace[1].action.type = "CLEAR_ERROR"
         /\ calls[c].trace[1].after.error = Null

\* clearError() called in a loading, authenticated state that has an error
C13_Witness ==
  /\ \E c \in CallIds : Done(c, "clearError")
  /\ lastAction.type = "CLEAR_ERROR"
  /\ Present(prev.error) /\ prev.isLoading /\ prev.isAuthenticated
  /\ Present(prev.user)
  /\ state = [prev EXCEPT !.error = Null]

(***************************************************************************)
(* C14: reducing an action whose type is none of the twelve of             *)
(* AUTH_ACTIONS returns the state unchanged.                               *)
(***************************************************************************)
C14_UnknownIsIdentity ==
  lastAction.type \notin AUTH_ACTIONS => state = prev

\* an action whose type differs from LOGIN_SUCCESS only in case, carrying a
\* profile, reduced from a logged-out state with an error
C14_Witness ==
  /\ lastAction = Action("login_success", Obj([name |-> "X"]))
  /\ prev.user = Null /\ Present(prev.error) /\ prev.isLoading
  /\ state = prev

(***************************************************************************)
(* C16: calls may overlap, and the store is last-writer-wins: a success,   *)
(* failure or logout action fixes all four fields by itself, whatever the  *)
(* state before, so once the overlapping calls have resolved the state is  *)
(* the one produced by the call that dispatched last.                      *)
(***************************************************************************)
DecisiveTypes == SuccessTypes \cup FailureTypes \cup {"LOGOUT"}

DeterminedBy(a) ==
  IF a.type \in SuccessTypes THEN LoggedIn(a.payload)
  ELSE IF a.type \in FailureTypes THEN Failed(a.payload)
  ELSE LoggedOut

AllTraces == {init.trace} \cup {calls[c].trace : c \in CallIds}

LastDispatch(tr) == Dispatches(tr)[Len(Dispatches(tr))]

C16_LastWriterWins ==
  /\ \A tr \in AllTraces :
       \A i \in 1..Len(tr) :
         (tr[i].ev = "dispatch" /\ tr[i].action.type \in DecisiveTypes)
           => tr[i].after = DeterminedBy(tr[i].action)
  /\ lastAction.type \in DecisiveTypes =>
       /\ state = DeterminedBy(lastAction)
       /\ \E tr \in AllTraces :
            /\ Dispatches(tr) # <<>>
            /\ LastDispatch(tr).action = lastAction
            /\ LastDispatch(tr).after = state

\* a logout called after a login and finished before it: the login's
\* success, dispatched last, decides the state
C16_Witness ==
  /\ Done(1, "login") /\ Done(2, "logout")
  /\ lastAction.type = "LOGIN_SUCCESS"
  /\ calls[1].result = Returned([user |-> lastAction.payload])
  /\ state = LoggedIn(lastAction.payload)

(***************************************************************************)
(* C17: a rejection of the collaborator's logout is never surfaced:        *)
(* logout() returns normally to its caller, and the logout transition      *)
(* leaves error absent, whatever the collaborator answered.                *)
(***************************************************************************)
C17_LogoutFailureSwallowed ==
  \A c \in CallIds :
    Done(c, "logout") =>
      /\ calls[c].api.status \in {"resolved", "rejected"}
      /\ calls[c].result = Returned(Undefined)
      /\ \A i \in 1..Len(calls[c].trace) :
           calls[c].trace[i].ev = "dispatch" =>
             /\ calls[c].trace[i].action.payload = Undefined
             /\ calls[c].trace[i].after.error = Null

\* a logout whose collaborator call rejected, made in a state that showed an
\* error: the caller got a normal return and the error is gone
C17_Witness ==
  \E c \in CallIds :
    /\ Done(c, "logout")
    /\ calls[c].api = Rejected(Err("Network Error"))
    /\ calls[c].result.status = "returned"
    /\ lastAction.type = "LOGOUT"
    /\ Present(prev.error)
    /\ state.error = Null

(***************************************************************************)
(* C18: useAuth() outside a provider fails with the "must be used within   *)
(* an AuthProvider" error; inside a provider it returns, without failing,  *)
(* the current state fields together with the seven action functions.      *)
(***************************************************************************)
C18_UseAuth ==
  /\ lookup[FALSE] # Pending =>
       /\ lookup[FALSE].status = "threw"
       /\ lookup[FALSE].error.kind = "error"
       /\ lookup[FALSE].error.message =
            Str("useAuth must be used within an AuthProvider")
  /\ lookup[TRUE] # Pending =>
       /\ lookup[TRUE].status = "returned"
       /\ lookup[TRUE].value.kind = "object"
       /\ LET v == lookup[TRUE].value.fields
          IN /\ DOMAIN v = {"user", "isAuthenticated", "isLoading", "error",
                            "login", "register", "logout", "updateProfile",
                            "forgotPassword", "resetPassword", "clearError"}
             /\ v["user"] = state.user
             /\ v["isAuthenticated"] = state.isAuthenticated
             /\ v["isLoading"] = state.isLoading
             /\ v["error"] = state.error
             /\ \A k \in DOMAIN v \ {"user", "isAuthenticated", "isLoading",
                                     "error"} :
                  v[k] = [kind |-> "function", name |-> k]

\* one consumer outside a provider got the error, one inside got the value
\* of a logged-in state
C18_Witness ==
  /\ lookup[FALSE].status = "threw"
  /\ lookup[TRUE].status = "returned"
  /\ state.isAuthenticated /\ Present(state.user)
  /\ lookup[TRUE].value.fields["user"] = state.user

(***************************************************************************)
(* C19: in every reachable state of the provider, an error that is present *)
(* comes with user absent, isAuthenticated false and isLoading false; the  *)
(* action reduced last is then a failure action, every other action of     *)
(* AUTH_ACTIONS clearing the error.                                        *)
(***************************************************************************)
C19_ErrorOnlyWhenLoggedOut ==
  Present(state.error) =>
    /\ state.user = Null
    /\ state.isAuthenticated = FALSE
    /\ state.isLoading = FALSE
    /\ lastAction.type \in FailureTypes

\* the profile fetch failed after a login had succeeded: the error shows in
\* a logged-out, idle state
C19_Witness ==
  /\ init.api.status = "rejected"
  /\ state.error = init.api.error.message
  /\ \E c \in CallIds : Done(c, "login") /\ calls[c].result.status = "returned"
  /\ state = Failed(init.api.error.message)

(***************************************************************************)
(* C20: the store starts with isLoading = true, and whenever loadUser has  *)
(* finished and no login or register call is awaiting its collaborator,    *)
(* isLoading is false, for any overlapping of the user calls.              *)
(***************************************************************************)
InFlight(c) == calls[c].op \in {"login", "register"} /\ calls[c].pc = "await"

C20_LoadingOnlyWhileInFlight ==
  /\ (init.pc = "mount" /\ \A c \in CallIds : calls[c].op = "none")
       => state.isLoading = TRUE
  /\ (init.pc = "done" /\ \A c \in CallIds : ~InFlight(c))
       => state.isLoading = FALSE

\* a login and a register were both made and finished while loadUser was
\* awaiting the profile; loadUser dispatched last
C20_Witness ==
  /\ init.pc = "done"
  /\ Done(1, "login") /\ Done(2, "register")
  /\ lastAction.type = "LOAD_USER_SUCCESS"
  /\ state.isLoading = FALSE

====
